---- MODULE Spec2Model ----
(***************************************************************************)
(* Model of the scrubble bitboards: the scalar engine                      *)
(* (src/src/bitboard/mod.rs), the vectorized engine                        *)
(* (src/game/src/bitboard/avx2.rs) and the Coordinate type                 *)
(* (src/src/board/mod.rs).                                                 *)
(*                                                                         *)
(* A board is a function 0..15 -> 0..65535: sixteen u16 lanes.  A value of *)
(* an engine is a pair <<ok, rows>>; ok = FALSE means that the operation   *)
(* that should have produced the value panicked.  The two engines are run  *)
(* side by side on the same inputs.                                        *)
(***************************************************************************)
EXTENDS Integers, Sequences, FiniteSets, TLC

VARIABLES build, sc, vx, scPre, vxPre, steps, coordIn, coord, coordOp, idxCalled, idxOut,
          scDbg, vxDbg,
          lastOp, prevOp, lastBy, locRow, locCol, lastRhs, scCount, vxCount, scEq, vxEq

last == <<lastOp, prevOp, lastBy, locRow, locCol, lastRhs, scCount, vxCount, scEq, vxEq>>

coordVars == <<coordIn, coord, coordOp, idxCalled, idxOut>>

dbgVars == <<scDbg, vxDbg>>

vars == <<build, sc, vx, scPre, vxPre, steps, coordVars, dbgVars, last>>

(* ---------------------------- bounds ----------------------------------- *)
MaxSteps == 2
MaxShift == 17
MaxIdx == 17
MaxChain == 16

(* ------------------------- u16 arithmetic ------------------------------ *)
U16 == 65536
ROW_MAX == 32767
Lanes == 0..15

RECURSIVE Pow2(_)
Pow2(n) == IF n = 0 THEN 1 ELSE 2 * Pow2(n - 1)

RECURSIVE AndBits(_, _, _)
AndBits(a, b, k) ==
  IF k = 0 THEN 0
  ELSE (IF a % 2 = 1 /\ b % 2 = 1 THEN 1 ELSE 0) + 2 * AndBits(a \div 2, b \div 2, k - 1)

RECURSIVE OrBits(_, _, _)
OrBits(a, b, k) ==
  IF k = 0 THEN 0
  ELSE (IF a % 2 = 1 \/ b % 2 = 1 THEN 1 ELSE 0) + 2 * OrBits(a \div 2, b \div 2, k - 1)

RECURSIVE XorBits(_, _, _)
XorBits(a, b, k) ==
  IF k = 0 THEN 0
  ELSE (IF a % 2 # b % 2 THEN 1 ELSE 0) + 2 * XorBits(a \div 2, b \div 2, k - 1)

And16(a, b) == AndBits(a, b, 16)
Or16(a, b)  == OrBits(a, b, 16)
Xor16(a, b) == XorBits(a, b, 16)
Not16(a)    == (U16 - 1) - a

RECURSIVE PopCount(_)
PopCount(a) == IF a = 0 THEN 0 ELSE (a % 2) + PopCount(a \div 2)

Bit(a, k) == (a \div Pow2(k)) % 2

(* u16 << n for n < 16 *)
Shl16(a, n) == (a * Pow2(n)) % U16
(* u16 >> n for n < 16 *)
Shr16(a, n) == a \div Pow2(n)

RECURSIVE SumLanes(_, _)
SumLanes(rows, n) == IF n = 0 THEN 0 ELSE PopCount(rows[n - 1]) + SumLanes(rows, n - 1)

(* the outcome of an operation: <<TRUE, value>>, or <<FALSE, _>> after a panic *)
Ok(rows) == <<TRUE, rows>>
Panic(rows) == <<FALSE, rows>>
IsOk(v) == v[1]
Rows(v) == v[2]

(* ------------------------- scalar engine ------------------------------- *)
EMPTY == [i \in Lanes |-> 0]
FULL == [i \in Lanes |-> IF i = 15 THEN 0 ELSE ROW_MAX]

(* row_iter_mut visits rows 0..14 only; row_iter visits all sixteen *)
RowIterMutLen == 15
RowIterLen == 16

S_bitand_assign(self, rhs) ==
  [i \in Lanes |-> IF i < RowIterMutLen THEN And16(self[i], rhs[i]) ELSE self[i]]
S_bitor_assign(self, rhs) ==
  [i \in Lanes |-> IF i < RowIterMutLen THEN Or16(self[i], rhs[i]) ELSE self[i]]
S_bitxor_assign(self, rhs) ==
  [i \in Lanes |-> IF i < RowIterMutLen THEN Xor16(self[i], rhs[i]) ELSE self[i]]
S_bitand(self, rhs) == S_bitand_assign(self, rhs)
S_bitor(self, rhs) == S_bitor_assign(self, rhs)
S_bitxor(self, rhs) == S_bitxor_assign(self, rhs)

S_new_raw(rows) ==
  LET s == S_bitand_assign(rows, FULL)
  IN  IF s[15] = 0 THEN Ok(s) ELSE Panic(s)

S_count_ones(self) == SumLanes(self, RowIterLen)

S_invert(self) ==
  [i \in Lanes |-> IF i < RowIterMutLen THEN And16(Not16(self[i]), ROW_MAX) ELSE self[i]]
S_not(self) == S_invert(self)

S_right_one(self) ==
  LET out == [i \in Lanes |-> IF i < RowIterMutLen THEN Shl16(self[i], 1) ELSE self[i]]
  IN  S_bitand(out, FULL)

S_left_one(self) ==
  [i \in Lanes |-> IF i < RowIterMutLen THEN Shr16(self[i], 1) ELSE self[i]]

RECURSIVE UpLoop(_, _)
UpLoop(rows, i) ==
  IF i < 0 THEN rows ELSE UpLoop([rows EXCEPT ![i + 1] = rows[i]], i - 1)

(* up_one that forgets to clear the vacated first row *)
S_up_one_KeepsFirstRow(self) ==
  LET out == UpLoop(self, 14)
  IN  [out EXCEPT ![15] = 0]

S_up_one(self) ==
  LET out == UpLoop(self, 14)
  IN  [out EXCEPT ![0] = 0, ![15] = 0]

RECURSIVE DownLoop(_, _)
DownLoop(rows, i) ==
  IF i >= 15 THEN rows ELSE DownLoop([rows EXCEPT ![i] = rows[i + 1]], i + 1)

S_down_one(self) == DownLoop(self, 0)

S_eq(self, other) ==
  \A i \in 0..14 : And16(self[i], ROW_MAX) = And16(other[i], ROW_MAX)

(* ----------------------- vectorized engine ----------------------------- *)
V_empty == [i \in Lanes |-> 0]
V_full == [i \in Lanes |-> IF i = 15 THEN 0 ELSE ROW_MAX]

V_new_raw(rows) == [rows EXCEPT ![15] = 0]

V_count_ones(self) == SumLanes(self, 16)

(* _mm256_sll_epi16: every lane shifted left by count, zero when count > 15 *)
shl_all_u16_m256i(rows, count) ==
  [i \in Lanes |-> IF count > 15 THEN 0 ELSE Shl16(rows[i], count)]

(* _mm256_sra_epi16: every lane shifted right by count, the sign bit shifted in *)
SraLane(a, count) ==
  LET c == IF count > 15 THEN 15 ELSE count
  IN  IF a >= 32768 THEN (U16 - 1) - Shr16((U16 - 1) - a, c) ELSE Shr16(a, c)
shr_all_i16_m256i(rows, count) == [i \in Lanes |-> SraLane(rows[i], count)]

V_bitand(self, rhs) == [i \in Lanes |-> And16(self[i], rhs[i])]
V_bitor(self, rhs)  == [i \in Lanes |-> Or16(self[i], rhs[i])]
V_bitxor(self, rhs) == [i \in Lanes |-> Xor16(self[i], rhs[i])]
V_not(self) == V_bitxor(self, V_full)

V_right(self, by) == Ok(V_bitand(shl_all_u16_m256i(self, by), V_full))
V_left(self, by) == Ok(shr_all_i16_m256i(self, by))

(* slice::rotate_right / rotate_left, defined for k <= len *)
rotate_right(rows, k) == [i \in Lanes |-> rows[(i + 16 - k) % 16]]
rotate_left(rows, k)  == [i \in Lanes |-> rows[(i + k) % 16]]

V_up(self, by) ==
  IF by > 16 THEN Panic(self)
  ELSE LET r == rotate_right(self, by)
           z == [i \in Lanes |-> IF i < by THEN 0 ELSE r[i]]
       IN  Ok([z EXCEPT ![15] = 0])

V_down(self, by) ==
  IF by > 16 THEN Panic(self)
  ELSE IF by - 1 > 14 THEN Panic(rotate_left(self, by))
  ELSE LET r == rotate_left(self, by)
           z == [i \in Lanes |-> IF i <= 14 /\ i >= 14 - (by - 1) THEN 0 ELSE r[i]]
       IN  Ok([z EXCEPT ![15] = 0])

V_eq(self, other) == V_bitxor(self, other) = V_empty

(* --------------------------- coordinates ------------------------------- *)
None == <<FALSE, 0>>
Some(v) == <<TRUE, v>>
IsSome(o) == o[1]
Unwrap(o) == o[2]

Coordinate_new(c) == IF c # 0 \/ c <= 15 THEN Some(c) ELSE None

(* (idx <= 15).then_some(Self(idx as u8)) *)
Coordinate_from_idx(idx) == IF idx <= 15 THEN Some(idx % 256) ELSE None

(* self.0 as usize - 1.  A debug build panics on the underflow, a release   *)
(* build wraps to usize::MAX, which is written -1 here.                     *)
as_idx(v, b) ==
  IF v >= 1 THEN Ok(v - 1)
  ELSE IF b = "debug" THEN Panic(0)
  ELSE Ok(-1)

(* 1u16 << idx: a debug build panics when idx >= 16, a release build masks  *)
(* the shift amount to its low four bits.                                   *)
ShlOne(idx, b) ==
  IF idx >= 0 /\ idx < 16 THEN Ok(Pow2(idx))
  ELSE IF b = "debug" THEN Panic(0)
  ELSE Ok(Pow2(idx % 16))

(* rows = [0; 16]; rows[row.as_idx()] = 1 << column.as_idx() *)
LocationRows(row, col, b) ==
  LET ci == as_idx(col, b)
      ri == as_idx(row, b)
      bit == ShlOne(Rows(ci), b)
  IN  IF ~IsOk(ci) \/ ~IsOk(ri) \/ ~IsOk(bit) \/ Rows(ri) < 0 \/ Rows(ri) > 15
      THEN Panic(EMPTY)
      ELSE Ok([EMPTY EXCEPT ![Rows(ri)] = Rows(bit)])

S_from_location(row, col, b) ==
  LET r == LocationRows(row, col, b)
  IN  IF IsOk(r) THEN S_new_raw(Rows(r)) ELSE r

V_for_location(row, col, b) ==
  LET r == LocationRows(row, col, b)
  IN  IF IsOk(r) THEN Ok(V_new_raw(Rows(r))) ELSE r

(* ------------------------------ inputs --------------------------------- *)
Builds == {"debug", "release"}
LaneVals == {0, 1, 16384, 32767, 32768, 65535}
Raw(a, b, p) == [i \in Lanes |-> IF i = 15 THEN p ELSE IF i % 2 = 0 THEN a ELSE b]
RawInputs == {Raw(a, b, p) : a \in LaneVals, b \in LaneVals, p \in LaneVals}
RawSample == {r \in RawInputs : r[1] \in {0, r[0]} /\ r[15] \in {0, r[0]}}
CoordSample == {0, 1, 15, 16, 17}
U8 == 0..255
(* shift amounts: the small ones and those around the board's edge *)
ShiftAmounts == {0, 1, 2} \cup (14..MaxShift)

NoRhs == <<"none", EMPTY>>
Kind(d) == d[1]
Operands ==
  {<<"empty", EMPTY>>, <<"full", EMPTY>>}
  \cup {<<"raw", r>> : r \in {Raw(65535, 65535, 0), Raw(1, 0, 0), Raw(32768, 0, 1)}}

S_operand(d) ==
  IF Kind(d) = "empty" THEN Ok(EMPTY)
  ELSE IF Kind(d) = "full" THEN Ok(FULL)
  ELSE S_new_raw(Rows(d))

V_operand(d) ==
  IF Kind(d) = "empty" THEN Ok(V_empty)
  ELSE IF Kind(d) = "full" THEN Ok(V_full)
  ELSE Ok(V_new_raw(Rows(d)))

(* --------------------------- state machine ----------------------------- *)
Init ==
  /\ build \in Builds
  /\ sc = Ok(EMPTY)
  /\ vx = Ok(V_empty)
  /\ scPre = Ok(EMPTY)
  /\ vxPre = Ok(V_empty)
  /\ lastOp = "init"
  /\ prevOp = "init"
  /\ lastBy = 0
  /\ locRow = 0
  /\ locCol = 0
  /\ lastRhs = NoRhs
  /\ scCount = -1
  /\ vxCount = -1
  /\ scEq = "none"
  /\ vxEq = "none"
  /\ steps = 0
  /\ coordIn = -1
  /\ coord = None
  /\ coordOp = "none"
  /\ idxCalled = FALSE
  /\ idxOut = Ok(0)
  /\ scDbg = <<>>
  /\ vxDbg = <<>>

(* what every operation records: the operation, its arguments and the     *)
(* values it was applied to                                                *)
Record(op, by, row, col, rhs) ==
  /\ steps < MaxSteps
  /\ steps' = steps + 1
  /\ scPre' = sc
  /\ vxPre' = vx
  /\ lastOp' = op
  /\ prevOp' = lastOp
  /\ lastBy' = by
  /\ locRow' = row
  /\ locCol' = col
  /\ lastRhs' = rhs
  /\ UNCHANGED <<build, coordVars>>

Step(op, by, row, col, rhs, s, v) ==
  /\ Record(op, by, row, col, rhs)
  /\ sc' = s
  /\ vx' = v
  /\ scDbg' = <<>>
  /\ vxDbg' = <<>>
  /\ scCount' = -1
  /\ vxCount' = -1
  /\ scEq' = "none"
  /\ vxEq' = "none"

Empty == Step("empty", 0, 0, 0, NoRhs, Ok(EMPTY), Ok(V_empty))

Full == Step("full", 0, 0, 0, NoRhs, Ok(FULL), Ok(V_full))

NewRaw ==
  \E r \in RawSample :
    Step("new_raw", 0, 0, 0, <<"raw", r>>, S_new_raw(r), Ok(V_new_raw(r)))

ForLocation ==
  \E row \in CoordSample, col \in CoordSample :
    /\ IsSome(Coordinate_new(row))
    /\ IsSome(Coordinate_new(col))
    /\ Step("for_location", 0, row, col, NoRhs,
            S_from_location(Unwrap(Coordinate_new(row)), Unwrap(Coordinate_new(col)), build),
            V_for_location(Unwrap(Coordinate_new(row)), Unwrap(Coordinate_new(col)), build))

RightOne ==
  Step("right_one", 1, 0, 0, NoRhs,
       IF IsOk(sc) THEN Ok(S_right_one(Rows(sc))) ELSE sc,
       IF IsOk(vx) THEN V_right(Rows(vx), 1) ELSE vx)

LeftOne ==
  Step("left_one", 1, 0, 0, NoRhs,
       IF IsOk(sc) THEN Ok(S_left_one(Rows(sc))) ELSE sc,
       IF IsOk(vx) THEN V_left(Rows(vx), 1) ELSE vx)

UpOne ==
  Step("up_one", 1, 0, 0, NoRhs,
       IF IsOk(sc) THEN Ok(S_up_one(Rows(sc))) ELSE sc,
       IF IsOk(vx) THEN V_up(Rows(vx), 1) ELSE vx)

DownOne ==
  Step("down_one", 1, 0, 0, NoRhs,
       IF IsOk(sc) THEN Ok(S_down_one(Rows(sc))) ELSE sc,
       IF IsOk(vx) THEN V_down(Rows(vx), 1) ELSE vx)

(* the shifts by an amount exist in the vectorized engine only *)
Right ==
  \E n \in ShiftAmounts :
    IsOk(vx) /\ Step("right", n, 0, 0, NoRhs, sc, V_right(Rows(vx), n))

Left ==
  \E n \in ShiftAmounts :
    IsOk(vx) /\ Step("left", n, 0, 0, NoRhs, sc, V_left(Rows(vx), n))

Up ==
  \E n \in ShiftAmounts :
    IsOk(vx) /\ Step("up", n, 0, 0, NoRhs, sc, V_up(Rows(vx), n))

Down ==
  \E n \in ShiftAmounts :
    IsOk(vx) /\ Step("down", n, 0, 0, NoRhs, sc, V_down(Rows(vx), n))

S_binop(op, self, d) ==
  LET o == S_operand(d)
  IN  IF ~IsOk(self) THEN self
      ELSE IF ~IsOk(o) THEN Panic(Rows(self))
      ELSE IF op = "and" THEN Ok(S_bitand(Rows(self), Rows(o)))
      ELSE IF op = "or" THEN Ok(S_bitor(Rows(self), Rows(o)))
      ELSE Ok(S_bitxor(Rows(self), Rows(o)))

V_binop(op, self, d) ==
  LET o == V_operand(d)
  IN  IF ~IsOk(self) THEN self
      ELSE IF op = "and" THEN Ok(V_bitand(Rows(self), Rows(o)))
      ELSE IF op = "or" THEN Ok(V_bitor(Rows(self), Rows(o)))
      ELSE Ok(V_bitxor(Rows(self), Rows(o)))

BitAnd == \E d \in Operands : Step("and", 0, 0, 0, d, S_binop("and", sc, d), V_binop("and", vx, d))

BitOr == \E d \in Operands : Step("or", 0, 0, 0, d, S_binop("or", sc, d), V_binop("or", vx, d))

BitXor == \E d \in Operands : Step("xor", 0, 0, 0, d, S_binop("xor", sc, d), V_binop("xor", vx, d))

Not ==
  Step("not", 0, 0, 0, NoRhs,
       IF IsOk(sc) THEN Ok(S_not(Rows(sc))) ELSE sc,
       IF IsOk(vx) THEN Ok(V_not(Rows(vx))) ELSE vx)

CountOnes ==
  /\ Record("count_ones", 0, 0, 0, NoRhs)
  /\ scCount' = (IF IsOk(sc) THEN S_count_ones(Rows(sc)) ELSE -1)
  /\ vxCount' = (IF IsOk(vx) THEN V_count_ones(Rows(vx)) ELSE -1)
  /\ scEq' = "none"
  /\ vxEq' = "none"
  /\ UNCHANGED <<sc, vx, dbgVars>>

EqStr(b) == IF b THEN "eq" ELSE "ne"

Eq ==
  \E d \in Operands :
    /\ Record("eq", 0, 0, 0, d)
    /\ scEq' = (IF IsOk(sc) /\ IsOk(S_operand(d))
                THEN EqStr(S_eq(Rows(sc), Rows(S_operand(d)))) ELSE "none")
    /\ vxEq' = (IF IsOk(vx)
                THEN EqStr(V_eq(Rows(vx), Rows(V_operand(d)))) ELSE "none")
    /\ scCount' = -1
    /\ vxCount' = -1
    /\ UNCHANGED <<sc, vx, dbgVars>>

(* ---- Debug rendering ---- *)
(* u16::reverse_bits *)
RECURSIVE RevBits(_, _)
RevBits(a, k) == IF k = 0 THEN 0 ELSE (a % 2) * Pow2(k - 1) + RevBits(a \div 2, k - 1)
reverse_bits(a) == RevBits(a, 16)

(* the binary digits of x, most significant first ("0" for zero) *)
RECURSIVE BinDigits(_)
BinDigits(x) == IF x < 2 THEN <<x>> ELSE Append(BinDigits(x \div 2), x % 2)

RECURSIVE ZeroPad(_, _)
ZeroPad(ds, width) == IF Len(ds) >= width THEN ds ELSE ZeroPad(<<0>> \o ds, width)

(* format!("{:0<width>b}", x) *)
FormatBinary(x, width) == ZeroPad(BinDigits(x), width)

(* a field of the debug_struct: the number in its name "r{:02}" and its digits *)
Field(number, digits) == <<number, digits>>
FieldNumber(f) == f[1]
FieldDigits(f) == f[2]

(* scalar: self.row_iter().rev().enumerate(), the k-th field (k from 0) is  *)
(* lane 15 - k under the name idx + 1 = k + 1                               *)
S_fmt(self) ==
  [k \in 1..RowIterLen |->
     Field((k - 1) + 1, FormatBinary(Shr16(reverse_bits(self[RowIterLen - k]), 1), 15))]

(* vectorized: rows.iter().enumerate().rev(), the k-th field (k from 0) is  *)
(* lane 15 - k under the name idx + 1 = 16 - k                              *)
V_fmt(self) ==
  [k \in 1..16 |->
     Field((16 - k) + 1, FormatBinary(Shr16(reverse_bits(self[16 - k]), 1), 16))]

Debug ==
  /\ Record("debug", 0, 0, 0, NoRhs)
  /\ scDbg' = (IF IsOk(sc) THEN S_fmt(Rows(sc)) ELSE <<>>)
  /\ vxDbg' = (IF IsOk(vx) THEN V_fmt(Rows(vx)) ELSE <<>>)
  /\ scCount' = -1
  /\ vxCount' = -1
  /\ scEq' = "none"
  /\ vxEq' = "none"
  /\ UNCHANGED <<sc, vx>>

Next ==
  \/ Empty \/ Full \/ NewRaw \/ ForLocation
  \/ RightOne \/ LeftOne \/ UpOne \/ DownOne
  \/ Right \/ Left \/ Up \/ Down
  \/ BitAnd \/ BitOr \/ BitXor \/ Not
  \/ CountOnes \/ Eq \/ Debug

Spec == Init /\ [][Next]_vars

(* Chains of single steps in one direction, starting from the full board  *)
(* (tests::fifteen_*_ones_is_empty)                                        *)
InitSat ==
  /\ build \in Builds
  /\ sc = Ok(FULL)
  /\ vx = Ok(V_full)
  /\ scPre = Ok(FULL)
  /\ vxPre = Ok(V_full)
  /\ lastOp = "full"
  /\ prevOp = "init"
  /\ lastBy = 0
  /\ locRow = 0
  /\ locCol = 0
  /\ lastRhs = NoRhs
  /\ scCount = -1
  /\ vxCount = -1
  /\ scEq = "none"
  /\ vxEq = "none"
  /\ steps = 0
  /\ coordIn = -1
  /\ coord = None
  /\ coordOp = "none"
  /\ idxCalled = FALSE
  /\ idxOut = Ok(0)
  /\ scDbg = <<>>
  /\ vxDbg = <<>>

Chain(op, s, v) ==
  /\ lastOp \in {"full", op}
  /\ steps < MaxChain
  /\ steps' = steps + 1
  /\ scPre' = sc
  /\ vxPre' = vx
  /\ sc' = s
  /\ vx' = v
  /\ lastOp' = op
  /\ prevOp' = lastOp
  /\ UNCHANGED <<build, coordVars, dbgVars, lastBy, locRow, locCol, lastRhs, scCount, vxCount, scEq, vxEq>>

ChainRight ==
  Chain("right_one",
        IF IsOk(sc) THEN Ok(S_right_one(Rows(sc))) ELSE sc,
        IF IsOk(vx) THEN V_right(Rows(vx), 1) ELSE vx)

ChainLeft ==
  Chain("left_one",
        IF IsOk(sc) THEN Ok(S_left_one(Rows(sc))) ELSE sc,
        IF IsOk(vx) THEN V_left(Rows(vx), 1) ELSE vx)

ChainUp ==
  Chain("up_one",
        IF IsOk(sc) THEN Ok(S_up_one(Rows(sc))) ELSE sc,
        IF IsOk(vx) THEN V_up(Rows(vx), 1) ELSE vx)

ChainDown ==
  Chain("down_one",
        IF IsOk(sc) THEN Ok(S_down_one(Rows(sc))) ELSE sc,
        IF IsOk(vx) THEN V_down(Rows(vx), 1) ELSE vx)

NextSat == ChainRight \/ ChainLeft \/ ChainUp \/ ChainDown

SpecSat == InitSat /\ [][NextSat]_vars

(* Coordinate construction and conversion on their own *)
CoordNew ==
  \E c \in U8 :
    /\ coordIn' = c
    /\ coord' = Coordinate_new(c)
    /\ coordOp' = "new"
    /\ idxCalled' = FALSE
    /\ idxOut' = Ok(0)
    /\ UNCHANGED <<build, sc, vx, scPre, vxPre, steps, last, dbgVars>>

CoordFromIdx ==
  \E i \in 0..MaxIdx :
    /\ coordIn' = i
    /\ coord' = Coordinate_from_idx(i)
    /\ coordOp' = "from_idx"
    /\ idxCalled' = FALSE
    /\ idxOut' = Ok(0)
    /\ UNCHANGED <<build, sc, vx, scPre, vxPre, steps, last, dbgVars>>

(* as_idx of the Coordinate constructed last *)
CoordAsIdx ==
  /\ IsSome(coord)
  /\ ~idxCalled
  /\ idxCalled' = TRUE
  /\ idxOut' = as_idx(Unwrap(coord), build)
  /\ UNCHANGED <<build, sc, vx, scPre, vxPre, steps, last, dbgVars, coordIn, coord, coordOp>>

NextCoord == CoordNew \/ CoordFromIdx \/ CoordAsIdx

SpecCoord == Init /\ [][NextCoord]_vars

(* ------------------------- auxiliary notions --------------------------- *)
Padded(rows) == rows[15] = 0 /\ \A i \in Lanes : rows[i] < 32768

Masked(rows) == [i \in Lanes |-> IF i = 15 THEN 0 ELSE rows[i] % 32768]

(* cell (r, c), r and c in 1..15, of a board *)
Cell(rows, r, c) == Bit(rows[r - 1], c - 1) = 1

SameCells(a, b) == \A r \in 1..15, c \in 1..15 : Cell(a, r, c) <=> Cell(b, r, c)

RECURSIVE CountCells(_, _)
CountCells(rows, n) ==
  IF n = 0 THEN 0 ELSE PopCount(rows[n - 1] % 32768) + CountCells(rows, n - 1)

RealCells(rows) == CountCells(rows, 15)

VShift(dir, rows, n) ==
  IF dir = "right" THEN V_right(rows, n)
  ELSE IF dir = "left" THEN V_left(rows, n)
  ELSE IF dir = "up" THEN V_up(rows, n)
  ELSE V_down(rows, n)

(* fold(0..n, b, |acc, _| acc.op(1)) *)
RECURSIVE FoldOne(_, _, _)
FoldOne(dir, v, n) ==
  IF n = 0 \/ ~IsOk(v) THEN v ELSE FoldOne(dir, VShift(dir, Rows(v), 1), n - 1)

Constructors == {"init", "empty", "full", "new_raw", "for_location"}
SharedOps == {"right_one", "left_one", "up_one", "down_one",
              "and", "or", "xor", "not", "count_ones", "eq"}

(* ------------------------------ claims --------------------------------- *)

(* C1: every value either engine produces has lane 15 equal to zero and    *)
(* bit 15 of every lane equal to zero.                                     *)
PaddingInvariant ==
  /\ IsOk(sc) => Padded(Rows(sc))
  /\ IsOk(vx) => Padded(Rows(vx))

(* C2: new_raw returns, for every sixteen lanes, a value whose lanes 0..14 *)
(* are the input lanes AND 0x7FFF and whose lane 15 is 0; it never panics. *)
NewRawTotalNormalizing ==
  lastOp = "new_raw" =>
    /\ IsOk(sc) /\ Rows(sc) = Masked(Rows(lastRhs))
    /\ IsOk(vx) /\ Rows(vx) = Masked(Rows(lastRhs))

(* C3: for a board b built lastBy new_raw and 0 <= n < 15, b.right(n) equals n *)
(* applications of right(1) to b; likewise left, up and down.              *)
ShiftDecomposition ==
  (/\ lastOp \in {"right", "left", "up", "down"}
   /\ prevOp = "new_raw"
   /\ lastBy < 15) =>
    /\ IsOk(vx)
    /\ IsOk(FoldOne(lastOp, vxPre, lastBy))
    /\ V_eq(Rows(vx), Rows(FoldOne(lastOp, vxPre, lastBy)))

(* C4: up(n) and down(n) never panic; lane i of b.up(n) is lane i-n of b   *)
(* when 0 <= i-n and i <= 14 and zero otherwise (mirrored for down), and   *)
(* the result is empty for every n >= 15.                                  *)
VerticalShiftsSaturate ==
  /\ (lastOp = "up" /\ IsOk(vxPre)) =>
       /\ IsOk(vx)
       /\ \A i \in Lanes : Rows(vx)[i] =
            IF i <= 14 /\ i - lastBy >= 0 THEN Rows(vxPre)[i - lastBy] ELSE 0
       /\ lastBy >= 15 => Rows(vx) = V_empty
  /\ (lastOp = "down" /\ IsOk(vxPre)) =>
       /\ IsOk(vx)
       /\ \A i \in Lanes : Rows(vx)[i] =
            IF i + lastBy <= 14 THEN Rows(vxPre)[i + lastBy] ELSE 0
       /\ lastBy >= 15 => Rows(vx) = V_empty
  /\ (lastOp = "up_one" /\ IsOk(scPre)) =>
       /\ IsOk(sc)
       /\ \A i \in Lanes : Rows(sc)[i] = IF i <= 14 /\ i >= 1 THEN Rows(scPre)[i - 1] ELSE 0
  /\ (lastOp = "down_one" /\ IsOk(scPre)) =>
       /\ IsOk(sc)
       /\ \A i \in Lanes : Rows(sc)[i] = IF i + 1 <= 14 THEN Rows(scPre)[i + 1] ELSE 0

(* C5: for a board b from the public constructors, cell (r, c) is set in   *)
(* b.right(n) iff c-n >= 1 and cell (r, c-n) is set in b, and in b.left(n) *)
(* iff c+n <= 15 and cell (r, c+n) is set in b; for n >= 15 both results   *)
(* equal empty.                                                            *)
RightCells(res, pre, n) ==
  \A r \in 1..15, c \in 1..15 :
    Cell(res, r, c) <=> (c - n >= 1 /\ Cell(pre, r, c - n))
LeftCells(res, pre, n) ==
  \A r \in 1..15, c \in 1..15 :
    Cell(res, r, c) <=> (c + n <= 15 /\ Cell(pre, r, c + n))
HorizontalShiftsDiscard ==
  prevOp \in Constructors =>
    /\ (lastOp = "right" /\ IsOk(vxPre)) =>
         /\ IsOk(vx) /\ RightCells(Rows(vx), Rows(vxPre), lastBy)
         /\ lastBy >= 15 => V_eq(Rows(vx), V_empty)
    /\ (lastOp = "left" /\ IsOk(vxPre)) =>
         /\ IsOk(vx) /\ LeftCells(Rows(vx), Rows(vxPre), lastBy)
         /\ lastBy >= 15 => V_eq(Rows(vx), V_empty)
    /\ (lastOp = "right_one" /\ IsOk(scPre)) => IsOk(sc) /\ RightCells(Rows(sc), Rows(scPre), 1)
    /\ (lastOp = "left_one" /\ IsOk(scPre)) => IsOk(sc) /\ LeftCells(Rows(sc), Rows(scPre), 1)

(* C6: in both engines two values compare equal iff their 225 real bits    *)
(* are identical.                                                          *)
EqualityIgnoresPadding ==
  lastOp = "eq" =>
    /\ vxEq # "none" =>
         (vxEq = "eq" <=> SameCells(Rows(vxPre), Rows(V_operand(lastRhs))))
    /\ scEq # "none" =>
         (scEq = "eq" <=> SameCells(Rows(scPre), Rows(S_operand(lastRhs))))

(* C7: for a board b produced lastBy new_raw, under the engine's own equality, *)
(* b & full == b, b & empty == empty, b | empty == b, b | full == full,    *)
(* !!b == b, !empty == full, !full == empty; NOT is XOR with full and      *)
(* leaves the padding bits zero.                                           *)
VLaws ==
  /\ (prevOp = "new_raw" /\ IsOk(vxPre) /\ IsOk(vx)) =>
       /\ (lastOp = "and" /\ Kind(lastRhs) = "full") => V_eq(Rows(vx), Rows(vxPre))
       /\ (lastOp = "and" /\ Kind(lastRhs) = "empty") => V_eq(Rows(vx), V_empty)
       /\ (lastOp = "or" /\ Kind(lastRhs) = "empty") => V_eq(Rows(vx), Rows(vxPre))
       /\ (lastOp = "or" /\ Kind(lastRhs) = "full") => V_eq(Rows(vx), V_full)
       /\ lastOp = "not" =>
            /\ V_eq(V_not(Rows(vx)), Rows(vxPre))
            /\ Rows(vx) = V_bitxor(Rows(vxPre), V_full)
            /\ Padded(Rows(vx))
  /\ (lastOp = "not" /\ prevOp \in {"init", "empty"}) => V_eq(Rows(vx), V_full)
  /\ (lastOp = "not" /\ prevOp = "full") => V_eq(Rows(vx), V_empty)
SLaws ==
  /\ (prevOp = "new_raw" /\ IsOk(scPre) /\ IsOk(sc)) =>
       /\ (lastOp = "and" /\ Kind(lastRhs) = "full") => S_eq(Rows(sc), Rows(scPre))
       /\ (lastOp = "and" /\ Kind(lastRhs) = "empty") => S_eq(Rows(sc), EMPTY)
       /\ (lastOp = "or" /\ Kind(lastRhs) = "empty") => S_eq(Rows(sc), Rows(scPre))
       /\ (lastOp = "or" /\ Kind(lastRhs) = "full") => S_eq(Rows(sc), FULL)
       /\ lastOp = "not" =>
            /\ S_eq(S_not(Rows(sc)), Rows(scPre))
            /\ Rows(sc) = S_bitxor(Rows(scPre), FULL)
            /\ Padded(Rows(sc))
  /\ (lastOp = "not" /\ prevOp \in {"init", "empty"}) => S_eq(Rows(sc), FULL)
  /\ (lastOp = "not" /\ prevOp = "full") => S_eq(Rows(sc), EMPTY)
BooleanAlgebraLaws == VLaws /\ SLaws

(* C8: Coordinate::new(v) returns a Coordinate iff 1 <= v <= 15.           *)
CoordinateRangeChecked ==
  coordOp = "new" => (IsSome(coord) <=> (1 <= coordIn /\ coordIn <= 15))

(* C9: count_ones returns the number of set real cells: 225 for full, 0    *)
(* for empty, never more than 225, padding bits not counted.               *)
CountOnesCountsCells ==
  lastOp = "count_ones" =>
    /\ IsOk(vx) => (vxCount = RealCells(Rows(vx)) /\ vxCount \in 0..225)
    /\ IsOk(sc) => (scCount = RealCells(Rows(sc)) /\ scCount \in 0..225)
    /\ prevOp = "full" => (vxCount = 225 /\ scCount = 225)
    /\ prevOp \in {"init", "empty"} => (vxCount = 0 /\ scCount = 0)

(* C10: for every sixteen raw lanes the two engines agree on new_raw and   *)
(* on every shared operation applied to its result: the same lanes, the    *)
(* same query results and the same success or failure.                     *)
BackendEquivalence ==
  (lastOp = "new_raw" \/ (prevOp = "new_raw" /\ lastOp \in SharedOps)) =>
    /\ IsOk(sc) = IsOk(vx)
    /\ IsOk(sc) => Rows(sc) = Rows(vx)
    /\ scCount = vxCount
    /\ scEq = vxEq

(* C11: as_idx of a Coordinate with value v in 1..15 is v-1; for every    *)
(* index i in 0..14 from_idx(i) is a Coordinate of value i+1 whose as_idx  *)
(* is i; from_idx(i) is None for i >= 15; as_idx never underflows or       *)
(* panics on a Coordinate produced by new or from_idx.                     *)
CoordinateIndexConversion ==
  /\ (coordOp = "from_idx" /\ coordIn <= 14) =>
       /\ IsSome(coord)
       /\ Unwrap(coord) = coordIn + 1
       /\ idxCalled => idxOut = Ok(coordIn)
  /\ (coordOp = "from_idx" /\ coordIn >= 15) => ~IsSome(coord)
  /\ (coordOp = "new" /\ IsSome(coord) /\ coordIn \in 1..15 /\ idxCalled) =>
       idxOut = Ok(coordIn - 1)
  /\ idxCalled => (IsOk(idxOut) /\ Rows(idxOut) \in 0..14)

(* C12: in each of the four directions, fourteen single steps applied to  *)
(* full() give a value not equal to empty(), and the fifteenth gives a     *)
(* value equal to empty(), in both engines.                                *)
OneOps == {"right_one", "left_one", "up_one", "down_one"}
ShiftSaturation ==
  lastOp \in OneOps =>
    /\ IsOk(sc) /\ IsOk(vx)
    /\ steps = 14 => (~S_eq(Rows(sc), EMPTY) /\ ~V_eq(Rows(vx), V_empty))
    /\ steps = 15 => (S_eq(Rows(sc), EMPTY) /\ V_eq(Rows(vx), V_empty))

(* the fifteenth step of a chain has been taken, after a non-empty         *)
(* fourteenth                                                              *)
FifteenthStepTaken ==
  /\ lastOp \in OneOps
  /\ steps = 15
  /\ IsOk(sc) /\ IsOk(vx)
  /\ Rows(scPre) # EMPTY /\ Rows(vxPre) # V_empty
  /\ Rows(vx) = V_empty

(* C13: the Debug output of a board lists exactly 15 row entries of       *)
(* exactly 15 digits each, board row 15 first and board row 1 last, each   *)
(* entry labelled with the number of the row it shows, column 1 leftmost;  *)
(* the padding lane and the padding bit are not rendered.                  *)
RendersBoard(dbg, rows) ==
  /\ Len(dbg) = 15
  /\ \A k \in 1..Len(dbg) :
       /\ FieldNumber(dbg[k]) = 16 - k
       /\ Len(FieldDigits(dbg[k])) = 15
       /\ \A c \in 1..15 :
            c <= Len(FieldDigits(dbg[k])) /\ 16 - k >= 1 =>
              (FieldDigits(dbg[k])[c] = 1 <=> Cell(rows, 16 - k, c))
DebugRenderingShape ==
  lastOp = "debug" =>
    /\ IsOk(sc) => RendersBoard(scDbg, Rows(sc))
    /\ IsOk(vx) => RendersBoard(vxDbg, Rows(vx))

====
